---- MODULE Spec2Model ----
(***************************************************************************)
(* Messaging subsystem of the academy-management backend                   *)
(* (controllers/message_controller.py, models/message_models.py).          *)
(*                                                                         *)
(* The identity directory (users, coaches, branch_managers, superadmins,   *)
(* branches, enrollments) is read-only for the messaging core: it is       *)
(* chosen in Init and never written.  The three collections the core       *)
(* writes are message_threads, messages and message_notifications, kept    *)
(* in insertion order.  send_message is a coroutine: every awaited         *)
(* data-store call is one atomic step of a request slot, so requests       *)
(* interleave exactly at the awaits of the source.                         *)
(***************************************************************************)
EXTENDS Integers, Sequences, FiniteSets, TLC

\* ------------------------------------------------------------------ bounds
\* send_message requests that pass validation in one run of the conversation
\* scenario (Spec)
MaxRequests == 2
\* send_message requests that pass validation in one run of the serial
\* conversation scenario (SpecSerial)
SerialMaxRequests == 3
\* send_message requests that pass validation, and messages that may be
\* inserted, in one run of the access scenario (SpecAccess)
AccessMaxRequests == 2
AccessMaxMessages == 1
\* send_message requests in flight at once
MaxProcs == 2
\* leading "Re: " prefixes on a subject a caller supplies
MaxRe == 1
\* send_message requests that pass validation in one run of the mailbox
\* scenario (SpecMailbox)
MailboxMaxRequests == 2
\* send_message requests that pass validation in one run of the flags
\* scenario (SpecFlags)
FlagsMaxRequests == 1
\* the skip and limit values a caller of get_thread_messages supplies
MaxSkip == 1
MaxLimit == 2
\* leading "Re: " prefixes on a subject, and send_message requests, in one
\* run of the prefixes scenario (SpecPrefixes)
PrefixMaxRe == 2
PrefixMaxRequests == 2
\* send_message requests that pass validation in one run of the resolution
\* scenario (SpecResolve)
ResolveMaxRequests == 3
\* send_message requests that pass validation in one run of the notifications
\* scenario (SpecNotify)
NotifyMaxRequests == 2
InjectMaxRequests == 2
\* the attendance scenario (SpecAttendance): calendar days, records in
\* db.attendance, mark_comprehensive_attendance calls in flight and in all
MaxDay == 2
MaxAttendance == 2
MaxMarkers == 2
MaxMarks == 2

\* ------------------------------------------------------------- vocabulary
\* Python's None (and every falsy id: "if user_branch_id:")
None == "none"

Branches == {"b1", "b2"}
BranchOrNone == Branches \cup {None}

STUDENT == "student"
COACH == "coach"
BRANCH_MANAGER == "branch_manager"
SUPERADMIN == "superadmin"
UserType == {STUDENT, COACH, BRANCH_MANAGER, SUPERADMIN}

\* A subject is the sequence of its leading "Re: " tokens followed by the
\* topic text, so that startswith("Re: ") and [4:] are Head and Tail.
RE == "Re: "
Topic == "Hello"
OtherTopic == "Schedule"
RECURSIVE Prefixed(_, _)
Prefixed(k, s) == IF k = 0 THEN s ELSE <<RE>> \o Prefixed(k - 1, s)
Subjects == {Prefixed(k, <<Topic>>) : k \in 0..MaxRe}

VARIABLES
    users,                  \* db.users: students (and legacy branch managers)
    coaches,                \* db.coaches
    branch_managers,        \* db.branch_managers
    superadmins,            \* db.superadmins
    branches,               \* db.branches
    enrollments,            \* db.enrollments
    message_threads,        \* db.message_threads, in insertion order
    messages,               \* db.messages, in insertion order
    message_notifications,  \* db.message_notifications, in insertion order
    proc,                   \* send_message requests: locals and position
    admitted,               \* history: send_message requests that passed validation
    resp,                   \* the response most recently returned to a caller
    attendance,             \* db.attendance, in insertion order
    attendance_unique,      \* the index unique_student_course_branch_date exists
    marking                 \* mark_comprehensive_attendance calls: locals and position

directory == <<users, coaches, branch_managers, superadmins, branches, enrollments>>
stores == <<message_threads, messages, message_notifications>>
roll == <<attendance, attendance_unique, marking>>
vars == <<users, coaches, branch_managers, superadmins, branches, enrollments,
          message_threads, messages, message_notifications, proc, admitted, resp,
          attendance, attendance_unique, marking>>

\* ------------------------------------------------------- identity directory
StudentIds == {"s1", "s2"}
CoachIds == {"c1", "c2"}
ManagerIds == {"m1", "m2", "m3"}
AdminIds == {"a1"}
UserIds == StudentIds \cup CoachIds \cup ManagerIds \cup AdminIds

\* current_user: the session dict every handler receives (id, role, branch_id).
\* A session may lack the branch id its owner's record carries, or carry
\* another one.
Session(id, role, branch) == [id |-> id, role |-> role, branch_id |-> branch]
Sessions ==
    {Session("s1", STUDENT, b) : b \in BranchOrNone}
        \cup {Session("s2", STUDENT, None)}
        \cup {Session("c1", COACH, b) : b \in BranchOrNone}
        \cup {Session("c2", COACH, None)}
        \cup {Session("m1", BRANCH_MANAGER, None)}
        \cup {Session("a1", SUPERADMIN, None)}

\* (recipient_id, recipient_type) pairs a caller may put in MessageCreate:
\* every account under its own type, and one id under a type it does not have.
TypeOfId(id) ==
    IF id \in StudentIds THEN STUDENT
    ELSE IF id \in CoachIds THEN COACH
    ELSE IF id \in ManagerIds THEN BRANCH_MANAGER
    ELSE SUPERADMIN
Targets == {<<id, TypeOfId(id)>> : id \in UserIds} \cup {<<"s1", COACH>>}

\* The directories the scenarios start from.  s1 is enrolled in b1 (and was,
\* inactively, in b2) while its own record names branch sb or none; s2 is a
\* legacy student with no branch and no enrollment; c1 coaches in b1, c2 in cb
\* or nowhere; m1 manages b1; b2 has manager mb or none, and m2 is active or
\* not (ma); m3 is a branch manager kept only in db.users.
Directory(sb, cb, mb, ma) ==
        /\ users =
            { [id |-> "s1", role |-> STUDENT, branch_id |-> sb, is_active |-> TRUE],
              [id |-> "s2", role |-> STUDENT, branch_id |-> None, is_active |-> TRUE],
              [id |-> "m3", role |-> BRANCH_MANAGER, branch_id |-> "b1", is_active |-> TRUE] }
        /\ coaches =
            { [id |-> "c1", branch_id |-> "b1", is_active |-> TRUE],
              [id |-> "c2", branch_id |-> cb, is_active |-> TRUE] }
        /\ branch_managers =
            { [id |-> "m1", branch_id |-> None, assignment_branch_id |-> "b1", is_active |-> TRUE],
              [id |-> "m2", branch_id |-> "b2", assignment_branch_id |-> None, is_active |-> ma] }
        /\ superadmins = { [id |-> "a1", is_active |-> TRUE] }
        /\ branches =
            { [id |-> "b1", manager_id |-> "m1", is_active |-> TRUE],
              [id |-> "b2", manager_id |-> mb, is_active |-> TRUE] }
        /\ enrollments =
            { [student_id |-> "s1", branch_id |-> "b1", is_active |-> TRUE],
              [student_id |-> "s1", branch_id |-> "b2", is_active |-> FALSE] }

\* ------------------------------------------------------------ store lookups
Range(seq) == {seq[k] : k \in 1..Len(seq)}

\* role_mapping.get(sender_role, UserType.STUDENT)
role_mapping(role) == IF role \in UserType THEN role ELSE STUDENT

\* the branch a student's requests are scoped to: the session's branch, else
\* the branches of the student's active enrollments
student_branch_ids(current_user) ==
    IF current_user.branch_id # None
    THEN {current_user.branch_id}
    ELSE {e.branch_id : e \in {x \in enrollments :
              x.student_id = current_user.id /\ x.is_active /\ x.branch_id # None}}

\* coach_record.get("branch_id") of db.coaches.find_one({"id": coach_id}), None
\* when there is no record or the record has no branch
coach_record_branch(coach_id) ==
    LET recs == {c \in coaches : c.id = coach_id}
    IN IF recs = {} THEN None ELSE (CHOOSE c \in recs : TRUE).branch_id

\* branch.get("manager_id") of db.branches.find_one({"id": branch_id})
branch_manager_id(branch_id) ==
    LET recs == {b \in branches : b.id = branch_id}
    IN IF recs = {} THEN None ELSE (CHOOSE b \in recs : TRUE).manager_id

\* ids of the active branches whose manager_id is the given user
managed_branch_ids(user_id) ==
    {b.id : b \in {x \in branches : x.manager_id = user_id /\ x.is_active}}

\* the recipient document find_one returns for the given type, as the set of
\* matching documents (empty: not found), each reduced to id and branch ids
find_recipient(recipient_id, recipient_type) ==
    IF recipient_type = STUDENT
    THEN {[id |-> u.id, branch_id |-> u.branch_id, assignment_branch_id |-> None] :
            u \in {x \in users : x.id = recipient_id /\ x.role = STUDENT /\ x.is_active}}
    ELSE IF recipient_type = COACH
    THEN {[id |-> c.id, branch_id |-> c.branch_id, assignment_branch_id |-> None] :
            c \in {x \in coaches : x.id = recipient_id /\ x.is_active}}
    ELSE IF recipient_type = BRANCH_MANAGER
    THEN {[id |-> m.id, branch_id |-> m.branch_id, assignment_branch_id |-> m.assignment_branch_id] :
            m \in {x \in branch_managers : x.id = recipient_id /\ x.is_active}}
    ELSE {[id |-> a.id, branch_id |-> None, assignment_branch_id |-> None] :
            a \in {x \in superadmins : x.id = recipient_id /\ x.is_active}}

\* a thread whose participants include both user ids
\* ({"participants.user_id": {"$all": [a, b]}})
HasBoth(thread, a, b) ==
    LET ids == {thread.participants[k].user_id : k \in 1..Len(thread.participants)}
    IN a \in ids /\ b \in ids

\* ---------------------------------------------------------- access validator
\* What _get_and_validate_recipient does: it returns the recipient info, or
\* raises HTTPException(status_code, detail).
Allowed(recipient) ==
    [ok |-> TRUE, status |-> 200, detail |-> "",
     recipient |-> [id |-> recipient.id,
                    branch_id |-> IF recipient.branch_id # None
                                  THEN recipient.branch_id
                                  ELSE recipient.assignment_branch_id]]
Raise(status, detail) ==
    [ok |-> FALSE, status |-> status, detail |-> detail,
     recipient |-> [id |-> None, branch_id |-> None]]

\* student_access with the resolver's fallback copied into it: a student with
\* no branch may write to any branch manager
student_access_fallback(recipient, recipient_type, current_user) ==
    IF recipient_type = COACH
    THEN IF recipient.branch_id \notin student_branch_ids(current_user)
         THEN Raise(403, "Cannot message coaches from other branches")
         ELSE Allowed(recipient)
    ELSE IF recipient_type = BRANCH_MANAGER
    THEN IF \/ student_branch_ids(current_user) = {}
            \/ \E b \in student_branch_ids(current_user) :
                    branch_manager_id(b) = recipient.id
         THEN Allowed(recipient)
         ELSE Raise(403, "Cannot message this branch manager")
    ELSE IF recipient_type = STUDENT
    THEN Raise(403, "Students cannot message other students")
    ELSE Allowed(recipient)

\* user_role == "student"
student_access(recipient, recipient_type, current_user) ==
    IF recipient_type = COACH
    THEN IF recipient.branch_id \notin student_branch_ids(current_user)
         THEN Raise(403, "Cannot message coaches from other branches")
         ELSE Allowed(recipient)
    ELSE IF recipient_type = BRANCH_MANAGER
    THEN IF \E b \in student_branch_ids(current_user) :
                /\ \E x \in branches : x.id = b
                /\ branch_manager_id(b) = recipient.id
         THEN Allowed(recipient)
         ELSE Raise(403, "Cannot message this branch manager")
    ELSE IF recipient_type = STUDENT
    THEN Raise(403, "Students cannot message other students")
    ELSE Allowed(recipient)

\* coach_reply_access without the lookup of an existing conversation
coach_reply_access_no_lookup(recipient, current_user) ==
    LET coach_branch == IF current_user.branch_id # None
                        THEN current_user.branch_id
                        ELSE coach_record_branch(current_user.id)
        student_branch == recipient.branch_id
    IN IF coach_branch = None \/ student_branch = None \/ coach_branch = student_branch
       THEN Allowed(recipient)
       ELSE Raise(403, "Cannot reply to students from other branches")

\* user_role == "coach", recipient a student, is_reply
coach_reply_access(recipient, current_user) ==
    LET coach_branch == IF current_user.branch_id # None
                        THEN current_user.branch_id
                        ELSE coach_record_branch(current_user.id)
        student_branch == recipient.branch_id
    IN IF coach_branch = None \/ student_branch = None \/ coach_branch = student_branch
       THEN Allowed(recipient)
       ELSE IF \E t \in Range(message_threads) : HasBoth(t, current_user.id, recipient.id)
       THEN Allowed(recipient)
       ELSE Raise(403, "Cannot reply to students from other branches")

\* user_role == "coach", recipient a student, not is_reply
coach_new_access(recipient, current_user) ==
    IF current_user.branch_id # None
    THEN IF recipient.branch_id # current_user.branch_id
         THEN Raise(403, "Cannot message students from other branches")
         ELSE Allowed(recipient)
    ELSE IF coach_record_branch(current_user.id) # None
    THEN IF recipient.branch_id # coach_record_branch(current_user.id)
         THEN Raise(403, "Cannot message students from other branches")
         ELSE Allowed(recipient)
    ELSE Allowed(recipient)

\* user_role == "coach"
coach_access(recipient, recipient_type, current_user, is_reply) ==
    IF recipient_type = STUDENT
    THEN IF is_reply
         THEN coach_reply_access(recipient, current_user)
         ELSE coach_new_access(recipient, current_user)
    ELSE IF recipient_type = BRANCH_MANAGER
    THEN LET effective_branch_id == IF current_user.branch_id # None
                                    THEN current_user.branch_id
                                    ELSE coach_record_branch(current_user.id)
         IN IF effective_branch_id # None
            THEN IF \/ ~(\E x \in branches : x.id = effective_branch_id)
                    \/ branch_manager_id(effective_branch_id) # recipient.id
                 THEN Raise(403, "Cannot message this branch manager")
                 ELSE Allowed(recipient)
            ELSE Allowed(recipient)
    ELSE IF recipient_type = COACH
    THEN Raise(403, "Coaches cannot message other coaches")
    ELSE Allowed(recipient)

\* manager_access without the branch of a branch_manager recipient
manager_access_no_peer_rule(recipient, recipient_type, current_user) ==
    IF recipient_type \in {STUDENT, COACH}
    THEN IF recipient.branch_id \notin managed_branch_ids(current_user.id)
         THEN Raise(403, "Cannot message users from branches you don't manage")
         ELSE Allowed(recipient)
    ELSE Allowed(recipient)

\* user_role == "branch_manager"
manager_access(recipient, recipient_type, current_user) ==
    IF recipient_type \in {STUDENT, COACH}
    THEN IF recipient.branch_id \notin managed_branch_ids(current_user.id)
         THEN Raise(403, "Cannot message users from branches you don't manage")
         ELSE Allowed(recipient)
    ELSE IF recipient_type = BRANCH_MANAGER
    THEN Raise(403, "Branch managers cannot message other branch managers")
    ELSE Allowed(recipient)

get_and_validate_recipient(recipient_id, recipient_type, current_user, is_reply) ==
    LET found == find_recipient(recipient_id, recipient_type)
    IN IF found = {}
       THEN Raise(404, "Recipient not found")
       ELSE LET recipient == CHOOSE r \in found : TRUE
            IN IF current_user.role = STUDENT
               THEN student_access(recipient, recipient_type, current_user)
               ELSE IF current_user.role = COACH
               THEN coach_access(recipient, recipient_type, current_user, is_reply)
               ELSE IF current_user.role = BRANCH_MANAGER
               THEN manager_access(recipient, recipient_type, current_user)
               ELSE Allowed(recipient)

\* _get_allowed_branches(sender, recipient)
get_allowed_branches(sender, recipient) ==
    (IF sender.branch_id # None THEN {sender.branch_id} ELSE {})
        \cup (IF recipient.branch_id # None THEN {recipient.branch_id} ELSE {})

\* -------------------------------------------------------- recipient resolver
\* get_available_recipients(current_user): the recipients list, as the set of
\* its (id, type) entries (name, email and branch_id are display data).
Entry(id, type) == [id |-> id, type |-> type]

active_superadmins == {Entry(a.id, SUPERADMIN) : a \in {x \in superadmins : x.is_active}}

\* the active branch manager on record for a branch, as recipient entries
branch_manager_of(branch_id) ==
    {Entry(m.id, BRANCH_MANAGER) :
        m \in {x \in branch_managers :
                 /\ branch_manager_id(branch_id) # None
                 /\ x.id = branch_manager_id(branch_id)
                 /\ x.is_active}}

\* the fallback left out: nothing is listed for a student with no branch
no_branch_managers == {}

\* the fallback of the student branch: all active branch managers, of
\* db.branch_managers and of db.users
all_branch_managers ==
    {Entry(m.id, BRANCH_MANAGER) : m \in {x \in branch_managers : x.is_active}}
        \cup {Entry(u.id, BRANCH_MANAGER) :
                u \in {x \in users : x.role = BRANCH_MANAGER /\ x.is_active}}

\* user_role == "student"
student_recipients(current_user) ==
    LET ids == student_branch_ids(current_user)
        fallback == IF ids = {} THEN all_branch_managers ELSE {}
        per_branch(b) ==
            {Entry(c.id, COACH) : c \in {x \in coaches : x.branch_id = b /\ x.is_active}}
                \cup branch_manager_of(b)
                \cup {Entry(u.id, BRANCH_MANAGER) :
                        u \in {x \in users : x.role = BRANCH_MANAGER /\ x.branch_id = b /\ x.is_active}}
    IN fallback \cup UNION {per_branch(b) : b \in ids} \cup active_superadmins

\* user_role == "coach"
coach_recipients(current_user) ==
    LET branch == IF current_user.branch_id # None
                  THEN current_user.branch_id
                  ELSE coach_record_branch(current_user.id)
        in_branch ==
            IF branch = None
            THEN {}
            ELSE {Entry(u.id, STUDENT) :
                    u \in {x \in users : x.role = STUDENT /\ x.branch_id = branch /\ x.is_active}}
                    \cup branch_manager_of(branch)
    IN in_branch \cup active_superadmins

\* user_role == "branch_manager"
manager_recipients(current_user) ==
    LET branch_ids == managed_branch_ids(current_user.id)
        student_ids == {e.student_id : e \in {x \in enrollments :
                            x.branch_id \in branch_ids /\ x.is_active}}
    IN {Entry(u.id, STUDENT) :
            u \in {x \in users : x.id \in student_ids /\ x.role = STUDENT /\ x.is_active}}
        \cup {Entry(c.id, COACH) : c \in {x \in coaches : x.branch_id \in branch_ids /\ x.is_active}}
        \cup active_superadmins

\* user_role in ["super_admin", "superadmin"]
superadmin_recipients ==
    {Entry(u.id, STUDENT) : u \in {x \in users : x.role = STUDENT /\ x.is_active}}
        \cup {Entry(c.id, COACH) : c \in {x \in coaches : x.is_active}}
        \cup {Entry(m.id, BRANCH_MANAGER) : m \in {x \in branch_managers : x.is_active}}
        \cup {Entry(u.id, BRANCH_MANAGER) : u \in {x \in users : x.role = BRANCH_MANAGER /\ x.is_active}}

get_available_recipients(current_user) ==
    IF current_user.role = STUDENT THEN student_recipients(current_user)
    ELSE IF current_user.role = COACH THEN coach_recipients(current_user)
    ELSE IF current_user.role = BRANCH_MANAGER THEN manager_recipients(current_user)
    ELSE superadmin_recipients

\* ------------------------------------------------------------ message stores
\* Ids are uuid4 strings in the source; here the k-th document inserted into a
\* collection has id k.  NoId is an absent Optional id, UnknownId an id that
\* names no document.
NoId == 0
UnknownId == 99

\* subject normalisation of send_message: strip one leading "Re: "
StripRe(subject) == IF Len(subject) > 0 /\ Head(subject) = RE THEN Tail(subject) ELSE subject

\* the thread search with {"is_archived": True} for {"is_archived": {"$ne": True}}
ThreadMatchesArchived(thread, sender_id, recipient_id, base_subject) ==
    /\ HasBoth(thread, sender_id, recipient_id)
    /\ Len(thread.participants) = 2
    /\ (thread.subject = base_subject \/ thread.subject = <<RE>> \o base_subject)
    /\ thread.is_archived = TRUE

\* the thread search with the participants matched in order (sender first)
\* instead of by "$all"
ThreadMatchesInOrder(thread, sender_id, recipient_id, base_subject) ==
    /\ Len(thread.participants) = 2
    /\ thread.participants[1].user_id = sender_id
    /\ thread.participants[2].user_id = recipient_id
    /\ (thread.subject = base_subject \/ thread.subject = <<RE>> \o base_subject)
    /\ thread.is_archived # TRUE

\* the thread search without the {"subject": f"Re: {base_subject}"} branch of
\* its "$or"
ThreadMatchesBaseOnly(thread, sender_id, recipient_id, base_subject) ==
    /\ HasBoth(thread, sender_id, recipient_id)
    /\ Len(thread.participants) = 2
    /\ thread.subject = base_subject
    /\ thread.is_archived # TRUE

\* the find_one filter of the thread search
ThreadMatches(thread, sender_id, recipient_id, base_subject) ==
    /\ HasBoth(thread, sender_id, recipient_id)
    /\ Len(thread.participants) = 2
    /\ (thread.subject = base_subject \/ thread.subject = <<RE>> \o base_subject)
    /\ thread.is_archived # TRUE

MessageParticipant(user_id, user_type, branch_id) ==
    [user_id |-> user_id, user_type |-> user_type, branch_id |-> branch_id]

\* MessageThread(subject=..., participants=[sender, recipient], allowed_branches=...)
\* for_subject is a history field: the subject of the request that created
\* the thread.
MessageThread(id, subject, for_subject, current_user, recipient, recipient_type) ==
    [id |-> id,
     subject |-> subject,
     for_subject |-> for_subject,
     participants |-> << MessageParticipant(current_user.id, role_mapping(current_user.role),
                                            current_user.branch_id),
                         MessageParticipant(recipient.id, recipient_type, recipient.branch_id) >>,
     message_count |-> 0,
     last_message_id |-> NoId,
     last_message_at |-> 0,
     last_sender_id |-> None,
     is_active |-> TRUE,
     is_archived |-> FALSE,
     allowed_branches |-> get_allowed_branches(current_user, recipient)]

\* Message(thread_id=..., sender_id=..., ...); created_at is the insertion
\* time, counted in messages.  Two history fields: thread_id_in is the
\* thread_id the request supplied, and sent says that the send_message call
\* that inserted the message has returned success.
Message(id, p) ==
    [id |-> id,
     thread_id |-> p.thread_id,
     sender_id |-> p.current_user.id,
     sender_type |-> role_mapping(p.current_user.role),
     sender_branch_id |-> p.current_user.branch_id,
     recipient_id |-> p.recipient_id,
     recipient_type |-> p.recipient_type,
     recipient_branch_id |-> p.recipient.branch_id,
     subject |-> p.subject,
     status |-> "sent",
     is_read |-> FALSE,
     is_archived |-> FALSE,
     is_deleted |-> FALSE,
     read_at |-> 0,
     reply_to_message_id |-> p.reply_to_message_id,
     is_reply |-> (p.reply_to_message_id # NoId),
     created_at |-> id,
     thread_id_in |-> p.thread_id_in,
     sent |-> FALSE]

\* the update with the "$inc" of message_count left out
thread_update_no_inc(thread, message) ==
    [thread EXCEPT !.last_message_id = message.id,
                   !.last_message_at = message.created_at,
                   !.last_sender_id = message.sender_id]

\* the update_one of send_message applied to one thread document:
\* $set of the last-message fields and $inc of message_count
thread_update(thread, message) ==
    [thread EXCEPT !.last_message_id = message.id,
                   !.last_message_at = message.created_at,
                   !.last_sender_id = message.sender_id,
                   !.message_count = @ + 1]

\* the notification with its type taken from is_reply of send_message
\* (a reply_to_message_id or a thread_id) instead of reply_to_message_id
MessageNotificationByIsReply(id, message, thread_id, recipient_id, recipient_type) ==
    [id |-> id,
     message_id |-> message.id,
     thread_id |-> thread_id,
     recipient_id |-> recipient_id,
     recipient_type |-> recipient_type,
     sender_id |-> message.sender_id,
     notification_type |-> IF message.reply_to_message_id # NoId \/ message.thread_id_in # NoId
                           THEN "message_reply" ELSE "new_message",
     is_read |-> FALSE,
     read_at |-> 0]

\* MessageNotification(...) of _create_message_notification
MessageNotification(id, message, thread_id, recipient_id, recipient_type) ==
    [id |-> id,
     message_id |-> message.id,
     thread_id |-> thread_id,
     recipient_id |-> recipient_id,
     recipient_type |-> recipient_type,
     sender_id |-> message.sender_id,
     notification_type |-> IF message.reply_to_message_id # NoId
                           THEN "message_reply" ELSE "new_message",
     is_read |-> FALSE,
     read_at |-> 0]

\* ------------------------------------------------------------- send_message
Procs == 1..MaxProcs

\* a request slot with no call in it; skip, limit, page, mark and patch are
\* locals of get_thread_messages and update_message
\* seen is a history field: the number of threads stored when the subject
\* search of the call found none, kept until the call inserts its thread
Idle ==
    [pc |-> "idle",
     current_user |-> Session(None, None, None),
     recipient_id |-> None,
     recipient_type |-> None,
     subject |-> <<>>,
     thread_id_in |-> NoId,
     reply_to_message_id |-> NoId,
     recipient |-> [id |-> None, branch_id |-> None],
     base_subject |-> <<>>,
     thread_id |-> NoId,
     message_id |-> NoId,
     skip |-> 0,
     limit |-> 0,
     page |-> <<>>,
     mark |-> {},
     patch |-> [f \in {} |-> FALSE],
     patch_status |-> None,
     seen |-> 0,
     wrote |-> {}]

\* is_reply = bool(message_data.reply_to_message_id or message_data.thread_id)
is_reply(reply_to_message_id, thread_id) == reply_to_message_id # NoId \/ thread_id # NoId

\* The response most recently returned to a caller, with the request it
\* answers.  raised is the status code of the exception raised inside the
\* handler (0: none, 500: a data-store error); status is the status code the
\* caller receives.  messages is the list get_thread_messages returns, as the
\* ids of its messages in order.  wrote is a history field: what the call had persisted
\* when it returned.
Request(current_user, recipient_id, recipient_type, reply) ==
    [current_user |-> current_user, recipient_id |-> recipient_id,
     recipient_type |-> recipient_type, is_reply |-> reply]
Response(op, request, status, raised, detail, message_id, thread_id, recipients, listed, wrote) ==
    [op |-> op, request |-> request, status |-> status, raised |-> raised,
     detail |-> detail, message_id |-> message_id, thread_id |-> thread_id,
     recipients |-> recipients, messages |-> listed, wrote |-> wrote,
     notification_id |-> NoId]
NoRequest == Request(Session(None, None, None), None, None, FALSE)
NoResponse == Response("none", NoRequest, 0, 0, "", NoId, NoId, {}, <<>>, {})

\* the request a slot is serving
RequestOf(p) ==
    Request(p.current_user, p.recipient_id, p.recipient_type,
            is_reply(p.reply_to_message_id, p.thread_id_in))

\* "except Exception as e: raise HTTPException(500, f'Failed to send message: {e}')"
\* An HTTPException raised by the validator is an Exception, so it is caught
\* here as well.
send_failure(request, raised, detail, wrote) ==
    Response("send", request, 500, raised, detail, NoId, NoId, {}, <<>>, wrote)

\* return {"message": "Message sent successfully", "message_id", "thread_id"}
send_success(p) ==
    Response("send", RequestOf(p), 200, 0, "Message sent successfully",
             p.message_id, p.thread_id, {}, <<>>, p.wrote)

\* (thread_id, reply_to_message_id) values a caller may supply: none, the id
\* of a stored document, or an id that names none; both at once when both.
RefInputs(both) ==
    LET tids == {UnknownId} \cup {message_threads[k].id : k \in 1..Len(message_threads)}
        mids == {UnknownId} \cup {messages[k].id : k \in 1..Len(messages)}
    IN {<<NoId, NoId>>} \cup {<<t, NoId>> : t \in tids} \cup {<<NoId, m>> : m \in mids}
        \cup (IF both THEN tids \X mids ELSE {})

\* requests are placed in the lowest free slot
FreeSlot(i) == proc[i].pc = "idle" /\ \A j \in Procs : j < i => proc[j].pc # "idle"

\* the order of thread resolution with the reply pointer looked at before
\* the thread_id supplied
first_lookup_reply_first(thread_id, reply_to_message_id) ==
    IF reply_to_message_id # NoId THEN "find_original"
    ELSE IF thread_id # NoId THEN "insert"
    ELSE "find_thread"

\* thread_id = message_data.thread_id; "if not thread_id and
\* message_data.reply_to_message_id:"; "if not thread_id:" -- the first store
\* call thread resolution makes, none (the insert of the message comes next)
\* when thread_id is supplied
first_lookup(thread_id, reply_to_message_id) ==
    IF thread_id # NoId THEN "insert"
    ELSE IF reply_to_message_id # NoId THEN "find_original"
    ELSE "find_thread"

\* send_message up to and including _get_and_validate_recipient, and the
\* choice of the first store call of thread resolution.  D bounds the inputs:
\* the sessions and targets, the subjects, whether callers supply thread_id
\* or reply_to_message_id at all (refs) or both at once (both).
SendBegin(i, D) ==
    /\ FreeSlot(i)
    /\ \E current_user \in D.sessions, target \in D.targets, reply \in BOOLEAN :
        LET v == get_and_validate_recipient(target[1], target[2], current_user, reply)
        IN IF ~v.ok
           THEN /\ resp' = send_failure(Request(current_user, target[1], target[2], reply),
                                        v.status, v.detail, {})
                /\ UNCHANGED <<proc, admitted>>
           ELSE /\ admitted < D.max_requests
                /\ admitted' = admitted + 1
                /\ \E subject \in D.subjects,
                      ref \in IF D.refs THEN RefInputs(D.both) ELSE {<<NoId, NoId>>} :
                    /\ reply = is_reply(ref[2], ref[1])
                    /\ proc' = [proc EXCEPT ![i] =
                                  [Idle EXCEPT !.pc = first_lookup(ref[1], ref[2]),
                                               !.current_user = current_user,
                                               !.recipient_id = target[1],
                                               !.recipient_type = target[2],
                                               !.subject = subject,
                                               !.thread_id_in = ref[1],
                                               !.reply_to_message_id = ref[2],
                                               !.recipient = v.recipient,
                                               !.thread_id = ref[1]]]
                /\ UNCHANGED resp
    /\ UNCHANGED <<directory, roll, stores>>

\* original_message = await db.messages.find_one({"id": reply_to_message_id})
FindOriginal(i) ==
    /\ proc[i].pc = "find_original"
    /\ LET found == {m \in Range(messages) : m.id = proc[i].reply_to_message_id}
       IN proc' = [proc EXCEPT ![i] =
                      IF found # {} /\ (CHOOSE m \in found : TRUE).thread_id # NoId
                      THEN [@ EXCEPT !.thread_id = (CHOOSE m \in found : TRUE).thread_id,
                                     !.pc = "insert"]
                      ELSE [@ EXCEPT !.pc = "find_thread"]]
    /\ UNCHANGED <<directory, roll, stores, admitted, resp>>

\* existing_thread = await db.message_threads.find_one({...}); find_one has no
\* sort, so any matching thread may be the one returned.
FindThread(i) ==
    /\ proc[i].pc = "find_thread"
    /\ LET base_subject == StripRe(proc[i].subject)
           matching == {t \in Range(message_threads) :
                           ThreadMatches(t, proc[i].current_user.id, proc[i].recipient_id,
                                         base_subject)}
       IN IF matching # {}
          THEN \E t \in matching :
                  proc' = [proc EXCEPT ![i] = [@ EXCEPT !.base_subject = base_subject,
                                                        !.thread_id = t.id,
                                                        !.pc = "insert"]]
          ELSE proc' = [proc EXCEPT ![i] = [@ EXCEPT !.base_subject = base_subject,
                                                     !.seen = Len(message_threads),
                                                     !.pc = "create"]]
    /\ UNCHANGED <<directory, roll, stores, admitted, resp>>

\* await db.message_threads.insert_one(thread_dict)
CreateThread(i) ==
    /\ proc[i].pc = "create"
    /\ LET thread == MessageThread(Len(message_threads) + 1, proc[i].base_subject,
                                   proc[i].subject, proc[i].current_user, proc[i].recipient,
                                   proc[i].recipient_type)
       IN /\ message_threads' = Append(message_threads, thread)
          /\ proc' = [proc EXCEPT ![i] = [@ EXCEPT !.thread_id = thread.id,
                                                   !.seen = 0,
                                                   !.wrote = @ \cup {"thread"},
                                                   !.pc = "insert"]]
    /\ UNCHANGED <<directory, roll, messages, message_notifications, admitted, resp>>

\* await db.messages.insert_one(message_dict)
InsertMessage(i, D) ==
    /\ proc[i].pc = "insert"
    /\ Len(messages) < D.max_messages
    /\ LET message == Message(Len(messages) + 1, proc[i])
       IN /\ messages' = Append(messages, message)
          /\ proc' = [proc EXCEPT ![i] = [@ EXCEPT !.message_id = message.id,
                                                   !.wrote = @ \cup {"message"},
                                                   !.pc = "update"]]
    /\ UNCHANGED <<directory, roll, message_threads, message_notifications, admitted, resp>>

\* await db.message_threads.update_one({"id": thread_id}, {"$set": ..., "$inc": ...})
UpdateThread(i) ==
    /\ proc[i].pc = "update"
    /\ message_threads' =
          [k \in 1..Len(message_threads) |->
              IF message_threads[k].id = proc[i].thread_id
              THEN thread_update(message_threads[k], messages[proc[i].message_id])
              ELSE message_threads[k]]
    /\ proc' = [proc EXCEPT ![i] =
                   [@ EXCEPT !.wrote = IF \E t \in Range(message_threads) : t.id = proc[i].thread_id
                                       THEN @ \cup {"count"} ELSE @,
                             !.pc = "notify"]]
    /\ UNCHANGED <<directory, roll, messages, message_notifications, admitted, resp>>

\* the call returns success: its message is marked as sent
Returned(i) ==
    [k \in 1..Len(messages) |->
        IF messages[k].id = proc[i].message_id
        THEN [messages[k] EXCEPT !.sent = TRUE] ELSE messages[k]]

\* await _create_message_notification(...), then the return of send_message
CreateNotification(i) ==
    /\ proc[i].pc = "notify"
    /\ message_notifications' =
          Append(message_notifications,
                 MessageNotification(Len(message_notifications) + 1,
                                     messages[proc[i].message_id], proc[i].thread_id,
                                     proc[i].recipient.id, proc[i].recipient_type))
    /\ messages' = Returned(i)
    /\ resp' = send_success([proc[i] EXCEPT !.wrote = @ \cup {"notification"}])
    /\ proc' = [proc EXCEPT ![i] = Idle]
    /\ UNCHANGED <<directory, roll, message_threads, admitted>>

\* the data store raises and nothing catches it before the handler of
\* send_message: _create_message_notification without its try/except
StoreFailsUnhandled(i) ==
    /\ proc[i].pc \in {"find_original", "find_thread", "create", "insert", "update", "notify"}
    /\ resp' = send_failure(RequestOf(proc[i]), 500, "store error", proc[i].wrote)
    /\ proc' = [proc EXCEPT ![i] = Idle]
    /\ UNCHANGED <<directory, roll, stores, admitted>>

\* The data store raises in the awaited call the request is about to make.
\* Inside _create_message_notification the exception is caught and printed,
\* and send_message returns success; anywhere else it reaches the handler's
\* "except Exception" and the caller gets the 500.
StoreFails(i) ==
    /\ proc[i].pc \in {"find_original", "find_thread", "create", "insert", "update", "notify"}
    /\ IF proc[i].pc = "notify"
       THEN /\ resp' = send_success(proc[i])
            /\ messages' = Returned(i)
       ELSE /\ resp' = send_failure(RequestOf(proc[i]), 500, "store error", proc[i].wrote)
            /\ UNCHANGED messages
    /\ proc' = [proc EXCEPT ![i] = Idle]
    /\ UNCHANGED <<directory, roll, message_threads, message_notifications, admitted>>

\* get_available_recipients(current_user)
GetAvailableRecipients(D) ==
    /\ \E current_user \in D.sessions :
          resp' = Response("recipients", Request(current_user, None, None, FALSE),
                           200, 0, "", NoId, NoId,
                           get_available_recipients(current_user), <<>>, {})
    /\ UNCHANGED <<directory, roll, stores, proc, admitted>>

\* ------------------------------------------------------ get_thread_messages
\* current_user["role"] in ["super_admin", "superadmin"]
is_superadmin(current_user) == current_user.role \in {"super_admin", SUPERADMIN}

\* thread ids a caller may name: those of the stored threads, and one that
\* names none
ThreadIdInputs == {UnknownId} \cup {message_threads[k].id : k \in 1..Len(message_threads)}
\* message ids a caller may name
MessageIdInputs == {UnknownId} \cup {messages[k].id : k \in 1..Len(messages)}

\* any(p["user_id"] == user_id for p in thread["participants"]), without the
\* comparison: everyone counts as a participant
user_is_anyone(thread, user_id) == Len(thread.participants) > 0

\* any(p["user_id"] == user_id for p in thread["participants"])
user_is_participant(thread, user_id) ==
    \E k \in 1..Len(thread.participants) : thread.participants[k].user_id = user_id

\* the cursor without the "is_deleted": False filter
thread_page_all(thread_id, skip, limit) ==
    LET Visible(m) == m.thread_id = thread_id
        visible == SelectSeq(messages, Visible)
        last == IF skip + limit < Len(visible) THEN skip + limit ELSE Len(visible)
    IN [k \in 1..(IF last > skip THEN last - skip ELSE 0) |-> visible[skip + k].id]

\* db.messages.find({"thread_id": thread_id, "is_deleted": False})
\*   .sort("created_at", 1).skip(skip).limit(limit), as the ids of its documents
thread_page(thread_id, skip, limit) ==
    LET Visible(m) == m.thread_id = thread_id /\ ~m.is_deleted
        visible == SelectSeq(messages, Visible)
        last == IF skip + limit < Len(visible) THEN skip + limit ELSE Len(visible)
    IN [k \in 1..(IF last > skip THEN last - skip ELSE 0) |-> visible[skip + k].id]

\* message_ids_to_mark_read: the documents of the page addressed to the user
\* and unread
ids_to_mark_read(page, user_id) ==
    {page[k] : k \in {j \in 1..Len(page) :
                        /\ messages[page[j]].recipient_id = user_id
                        /\ ~messages[page[j]].is_read}}

\* "$set": {"is_read": True, "read_at": utcnow(), "status": MessageStatus.READ};
\* read_at 1 stands for a time stamp
mark_read(message) ==
    [message EXCEPT !.is_read = TRUE, !.read_at = 1, !.status = "read"]

list_response(current_user, thread_id, status, detail, page, wrote) ==
    Response("list", Request(current_user, None, None, FALSE), status,
             IF status = 200 THEN 0 ELSE status, detail, NoId, thread_id, {}, page, wrote)

\* get_thread_messages up to the access check on the thread found
ListBegin(i, D) ==
    /\ FreeSlot(i)
    /\ \E current_user \in D.readers, thread_id \in ThreadIdInputs,
          skip \in 0..MaxSkip, limit \in 1..MaxLimit :
        LET found == {t \in Range(message_threads) : t.id = thread_id}
            thread == CHOOSE t \in found : TRUE
        IN IF found = {}
           THEN /\ resp' = list_response(current_user, thread_id, 404,
                                         "Thread not found", <<>>, {})
                /\ UNCHANGED proc
           ELSE IF /\ ~user_is_participant(thread, current_user.id)
                   /\ ~is_superadmin(current_user)
           THEN /\ resp' = list_response(current_user, thread_id, 403,
                                         "Access denied to this conversation", <<>>, {})
                /\ UNCHANGED proc
           ELSE /\ proc' = [proc EXCEPT ![i] =
                              [Idle EXCEPT !.pc = "list_find",
                                           !.current_user = current_user,
                                           !.thread_id = thread_id,
                                           !.skip = skip,
                                           !.limit = limit]]
                /\ UNCHANGED resp
    /\ UNCHANGED <<directory, roll, stores, admitted>>

\* messages = await messages_cursor.to_list(length=limit)
ListFind(i) ==
    /\ proc[i].pc = "list_find"
    /\ LET page == thread_page(proc[i].thread_id, proc[i].skip, proc[i].limit)
           mark == ids_to_mark_read(page, proc[i].current_user.id)
       IN proc' = [proc EXCEPT ![i] =
                      [@ EXCEPT !.page = page,
                                !.mark = mark,
                                !.pc = IF mark # {} THEN "list_mark" ELSE "list_count"]]
    /\ UNCHANGED <<directory, roll, stores, admitted, resp>>

\* await db.messages.update_many({"id": {"$in": message_ids_to_mark_read}}, ...)
ListMark(i) ==
    /\ proc[i].pc = "list_mark"
    /\ messages' = [k \in 1..Len(messages) |->
                       IF messages[k].id \in proc[i].mark
                       THEN mark_read(messages[k]) ELSE messages[k]]
    /\ proc' = [proc EXCEPT ![i] = [@ EXCEPT !.wrote = {"read"}, !.pc = "list_count"]]
    /\ UNCHANGED <<directory, roll, message_threads, message_notifications, admitted, resp>>

\* total_count = await db.messages.count_documents(...), then the return
ListCount(i) ==
    /\ proc[i].pc = "list_count"
    /\ resp' = list_response(proc[i].current_user, proc[i].thread_id, 200, "",
                             proc[i].page, proc[i].wrote)
    /\ proc' = [proc EXCEPT ![i] = Idle]
    /\ UNCHANGED <<directory, roll, stores, admitted>>

\* ----------------------------------------------------------- update_message
Flags == {"is_read", "is_archived", "is_deleted"}

\* MessageUpdate: each flag is absent (None) or a boolean
Patches == UNION {[named -> BOOLEAN] : named \in SUBSET Flags}

\* MessageUpdate.status: absent (None) or a MessageStatus
StatusInputs == {None, "delivered"}

\* update_fields built from every field of MessageUpdate, a flag the patch
\* does not name being written as False
apply_patch_all_fields(message, patch, status) ==
    LET Given(f) == f \in DOMAIN patch /\ patch[f]
        status1 == IF Given("is_read") THEN "read" ELSE message.status
        status2 == IF Given("is_archived") THEN "archived" ELSE status1
        status3 == IF Given("is_deleted") THEN "deleted" ELSE status2
    IN [message EXCEPT
          !.is_read = Given("is_read"),
          !.read_at = IF Given("is_read") THEN 1 ELSE @,
          !.is_archived = Given("is_archived"),
          !.is_deleted = Given("is_deleted"),
          !.status = IF status # None THEN status ELSE status3]

\* update_fields with the status of the first flag given, not of the last:
\* a status once put in update_fields is not overwritten by a later flag
apply_patch_first_flag(message, patch, status) ==
    LET Given(f) == f \in DOMAIN patch /\ patch[f]
        status3 == IF Given("is_read") THEN "read"
                   ELSE IF Given("is_archived") THEN "archived"
                   ELSE IF Given("is_deleted") THEN "deleted"
                   ELSE message.status
    IN [message EXCEPT
          !.is_read = IF "is_read" \in DOMAIN patch THEN patch["is_read"] ELSE @,
          !.read_at = IF Given("is_read") THEN 1 ELSE @,
          !.is_archived = IF "is_archived" \in DOMAIN patch THEN patch["is_archived"] ELSE @,
          !.is_deleted = IF "is_deleted" \in DOMAIN patch THEN patch["is_deleted"] ELSE @,
          !.status = IF status # None THEN status ELSE status3]

\* update_fields, applied to the message by "$set"
apply_patch(message, patch, status) ==
    LET Named(f) == f \in DOMAIN patch
        status1 == IF Named("is_read") /\ patch["is_read"] THEN "read" ELSE message.status
        status2 == IF Named("is_archived") /\ patch["is_archived"] THEN "archived" ELSE status1
        status3 == IF Named("is_deleted") /\ patch["is_deleted"] THEN "deleted" ELSE status2
    IN [message EXCEPT
          !.is_read = IF Named("is_read") THEN patch["is_read"] ELSE @,
          !.read_at = IF Named("is_read") /\ patch["is_read"] THEN 1 ELSE @,
          !.is_archived = IF Named("is_archived") THEN patch["is_archived"] ELSE @,
          !.is_deleted = IF Named("is_deleted") THEN patch["is_deleted"] ELSE @,
          !.status = IF status # None THEN status ELSE status3]

\* the permission check with the sender let through as well
update_denied_to_strangers(message, current_user) ==
    /\ message.recipient_id # current_user.id
    /\ message.sender_id # current_user.id
    /\ ~is_superadmin(current_user)

\* message["recipient_id"] != user_id and current_user["role"] not in [...]
update_denied(message, current_user) ==
    message.recipient_id # current_user.id /\ ~is_superadmin(current_user)

update_response(current_user, message_id, status, detail, wrote) ==
    Response("update", Request(current_user, None, None, FALSE), status,
             IF status = 200 THEN 0 ELSE status, detail, message_id, NoId, {}, <<>>, wrote)

\* update_message up to the permission check on the message found
UpdateBegin(i, D) ==
    /\ FreeSlot(i)
    /\ \E current_user \in D.readers, message_id \in MessageIdInputs,
          patch \in D.patches, status \in D.statuses :
        LET found == {m \in Range(messages) : m.id = message_id}
        IN IF found = {}
           THEN /\ resp' = update_response(current_user, message_id, 404,
                                           "Message not found", {})
                /\ UNCHANGED proc
           ELSE IF update_denied(CHOOSE m \in found : TRUE, current_user)
           THEN /\ resp' = update_response(current_user, message_id, 403,
                                           "Access denied", {})
                /\ UNCHANGED proc
           ELSE /\ proc' = [proc EXCEPT ![i] =
                              [Idle EXCEPT !.pc = "update_one",
                                           !.current_user = current_user,
                                           !.message_id = message_id,
                                           !.patch = patch,
                                           !.patch_status = status]]
                /\ UNCHANGED resp
    /\ UNCHANGED <<directory, roll, stores, admitted>>

\* await db.messages.update_one({"id": message_id}, {"$set": update_fields}),
\* then the return
UpdateOne(i) ==
    /\ proc[i].pc = "update_one"
    /\ messages' = [k \in 1..Len(messages) |->
                       IF messages[k].id = proc[i].message_id
                       THEN apply_patch(messages[k], proc[i].patch, proc[i].patch_status)
                       ELSE messages[k]]
    /\ resp' = update_response(proc[i].current_user, proc[i].message_id, 200,
                               "Message updated successfully", {"update"})
    /\ proc' = [proc EXCEPT ![i] = Idle]
    /\ UNCHANGED <<directory, roll, message_threads, message_notifications, admitted>>

\* ----------------------------------------- mark_message_notification_as_read
\* notification ids a caller may name
NotificationIdInputs ==
    {UnknownId} \cup {message_notifications[k].id : k \in 1..Len(message_notifications)}

\* the update_one filter with the recipient left out: {"id": notification_id}
notification_matches_id(notification, notification_id, user_id) ==
    notification.id = notification_id

\* the update_one filter {"id": notification_id, "recipient_id": current_user["id"]}
notification_matches(notification, notification_id, user_id) ==
    notification.id = notification_id /\ notification.recipient_id = user_id

\* the response of mark_message_notification_as_read, with the id it was
\* asked about
notification_response(current_user, notification_id, status, detail, wrote) ==
    [Response("mark_notification", Request(current_user, None, None, FALSE), status,
              IF status = 200 THEN 0 ELSE status, detail, NoId, NoId, {}, <<>>, wrote)
        EXCEPT !.notification_id = notification_id]

\* mark_message_notification_as_read(notification_id, current_user): one
\* update_one, then 404 when it matched nothing; read_at 1 stands for a time
\* stamp
MarkNotificationRead(D) ==
    /\ \E current_user \in D.readers, notification_id \in NotificationIdInputs :
        LET matched == {k \in 1..Len(message_notifications) :
                          notification_matches(message_notifications[k], notification_id,
                                               current_user.id)}
        IN /\ message_notifications' =
                 [k \in 1..Len(message_notifications) |->
                     IF k \in matched
                     THEN [message_notifications[k] EXCEPT !.is_read = TRUE, !.read_at = 1]
                     ELSE message_notifications[k]]
           /\ resp' = IF matched = {}
                      THEN notification_response(current_user, notification_id, 404,
                                                 "Notification not found", {})
                      ELSE notification_response(current_user, notification_id, 200,
                                                 "Notification marked as read",
                                                 {"notification_read"})
    /\ UNCHANGED <<directory, roll, message_threads, messages, proc, admitted>>

\* the caller has read the response
Ack ==
    /\ resp # NoResponse
    /\ resp' = NoResponse
    /\ UNCHANGED <<directory, roll, stores, proc, admitted>>

\* ---------------------------------------------------------------- attendance
\* A datetime is a calendar day and a time of day; time LastInstant stands for
\* 23:59:59.999999, the value of attendance_date_end.
LastInstant == 2
Dates == [day : 1..MaxDay, time : 0..LastInstant]

\* attendance_date.replace(hour=0, minute=0, second=0, microsecond=0)
attendance_date_start(date) == [date EXCEPT !.time = 0]
\* attendance_date.replace(hour=23, minute=59, second=59, microsecond=999999)
attendance_date_end(date) == [date EXCEPT !.time = LastInstant]
\* the order of datetimes
Before(a, b) == a.day < b.day \/ (a.day = b.day /\ a.time < b.time)

\* course_id="" of a biometric record
NoCourse == ""
\* a biometric id no user carries
UnknownBiometricId == "zz"

\* Attendance(...).dict(): id stands for the uuid, created_at is the insertion
\* time counted in records, updated_at 0 a document without the field
Attendance(id, student_id, course_id, branch_id, attendance_date, method, marked_by, is_present, status) ==
    [id |-> id, student_id |-> student_id, course_id |-> course_id,
     branch_id |-> branch_id, attendance_date |-> attendance_date, method |-> method,
     marked_by |-> marked_by, is_present |-> is_present, status |-> status,
     created_at |-> id, updated_at |-> 0]

\* unique_student_course_branch_date: the four indexed fields of the document
\* equal those of a stored one
DuplicateKey(doc) ==
    /\ attendance_unique
    /\ \E r \in Range(attendance) :
          /\ r.student_id = doc.student_id
          /\ r.course_id = doc.course_id
          /\ r.branch_id = doc.branch_id
          /\ r.attendance_date = doc.attendance_date

\* the filter of the deduplication find_one: student, course, branch and
\* attendance_date with "$gte" the start and "$lt" the end of the day
existing_matches(user_id, course_id, branch_id, date) ==
    {r \in Range(attendance) :
        /\ r.student_id = user_id
        /\ r.course_id = course_id
        /\ r.branch_id = branch_id
        /\ ~Before(r.attendance_date, attendance_date_start(date))
        /\ Before(r.attendance_date, attendance_date_end(date))}

\* sort=[("updated_at", -1), ("created_at", -1)]: the id of the first document
\* in that order, NoId when there is none
existing_attendance(user_id, course_id, branch_id, date) ==
    LET found == existing_matches(user_id, course_id, branch_id, date)
    IN IF found = {} THEN NoId
       ELSE (CHOOSE r \in found :
                \A q \in found :
                    \/ q.updated_at < r.updated_at
                    \/ (q.updated_at = r.updated_at /\ q.created_at <= r.created_at)).id

\* the largest updated_at stored
LastUpdate ==
    IF attendance = <<>> THEN 0
    ELSE CHOOSE n \in {r.updated_at : r \in Range(attendance)} :
            \A r \in Range(attendance) : r.updated_at <= n

\* a mark_comprehensive_attendance call: its locals and position
Markers == 1..MaxMarkers
NotMarking ==
    [pc |-> "idle", current_user |-> Session(None, None, None), user_id |-> None,
     course_id |-> None, branch_id |-> None, attendance_date |-> [day |-> 0, time |-> 0],
     status |-> None, existing |-> NoId]

\* the response of an attendance handler; every handler has only
\* "except Exception", so an HTTPException it raises reaches the caller as 500
attendance_response(op, current_user, raised, detail, wrote) ==
    Response(op, Request(current_user, None, None, FALSE),
             IF raised = 0 THEN 200 ELSE 500, raised, detail, NoId, NoId, {}, <<>>, wrote)

\* mark_manual_attendance(attendance_data, current_user)
MarkManual(D) ==
    /\ Len(attendance) < MaxAttendance
    /\ \E current_user \in D.markers, student_id \in D.students, course_id \in D.courses,
          branch_id \in D.branches, attendance_date \in Dates :
        LET doc == Attendance(Len(attendance) + 1, student_id, course_id, branch_id,
                              attendance_date, "manual", current_user.id, TRUE, None)
        IN IF DuplicateKey(doc)
           THEN /\ resp' = attendance_response("mark_manual", current_user, 500,
                                               "duplicate key", {})
                /\ UNCHANGED attendance
           ELSE /\ attendance' = Append(attendance, doc)
                /\ resp' = attendance_response("mark_manual", current_user, 0,
                                               "Attendance marked successfully", {"created"})
    /\ UNCHANGED <<directory, stores, proc, admitted, attendance_unique, marking>>

\* biometric_attendance(attendance_data); the biometric id of a user is
\* written as the user's id
BiometricAttendance(D) ==
    /\ Len(attendance) < MaxAttendance
    /\ \E biometric_id \in D.biometric_ids, timestamp \in Dates :
        LET found == {u \in users : u.id = biometric_id /\ u.is_active}
            user == CHOOSE u \in found : TRUE
            doc == Attendance(Len(attendance) + 1, user.id, NoCourse, user.branch_id,
                              timestamp, "biometric", None, TRUE, None)
            device == Session(None, None, None)
        IN IF found = {}
           THEN /\ resp' = attendance_response("biometric", device, 404,
                                "User with this biometric ID not found", {})
                /\ UNCHANGED attendance
           ELSE IF DuplicateKey(doc)
           THEN /\ resp' = attendance_response("biometric", device, 500,
                                               "duplicate key", {})
                /\ UNCHANGED attendance
           ELSE /\ attendance' = Append(attendance, doc)
                /\ resp' = attendance_response("biometric", device, 0,
                                               "Attendance marked successfully", {"created"})
    /\ UNCHANGED <<directory, stores, proc, admitted, attendance_unique, marking>>

\* mark_comprehensive_attendance for user_type "student", up to the
\* deduplication find_one
MarkBegin(j, D) ==
    /\ marking[j].pc = "idle"
    /\ \A k \in Markers : k < j => marking[k].pc # "idle"
    /\ LastUpdate + Cardinality({k \in Markers : marking[k].pc # "idle"}) < MaxMarks
    /\ \E current_user \in D.markers \cup D.others, user_id \in D.students,
          course_id \in D.courses \cup {None}, branch_id \in D.branches,
          attendance_date \in Dates, status \in D.statuses :
        IF current_user.role \notin {"super_admin", SUPERADMIN, COACH, BRANCH_MANAGER}
        THEN /\ resp' = attendance_response("mark", current_user, 403,
                                            "Insufficient permissions", {})
             /\ UNCHANGED marking
        ELSE IF course_id = None
        THEN /\ resp' = attendance_response("mark", current_user, 400,
                                            "Course ID required for student attendance", {})
             /\ UNCHANGED marking
        ELSE LET existing == existing_attendance(user_id, course_id, branch_id,
                                                 attendance_date)
             IN /\ marking' = [marking EXCEPT ![j] =
                                  [pc |-> IF existing # NoId THEN "update" ELSE "insert",
                                   current_user |-> current_user,
                                   user_id |-> user_id,
                                   course_id |-> course_id,
                                   branch_id |-> branch_id,
                                   attendance_date |-> attendance_date,
                                   status |-> status,
                                   existing |-> existing]]
                /\ UNCHANGED resp
    /\ UNCHANGED <<directory, stores, proc, admitted, attendance, attendance_unique>>

\* await db.attendance.update_one({"id": existing["id"]}, {"$set": update_data});
\* updated_at is the time of the update, so the document is modified
MarkUpdate(j) ==
    /\ marking[j].pc = "update"
    /\ attendance' =
          [k \in 1..Len(attendance) |->
              IF attendance[k].id = marking[j].existing
              THEN [attendance[k] EXCEPT
                      !.is_present = marking[j].status \in {"present", "late"},
                      !.status = marking[j].status,
                      !.marked_by = marking[j].current_user.id,
                      !.method = "manual",
                      !.updated_at = LastUpdate + 1]
              ELSE attendance[k]]
    /\ resp' = attendance_response("mark", marking[j].current_user, 0,
                                   "Student attendance updated successfully", {"updated"})
    /\ marking' = [marking EXCEPT ![j] = NotMarking]
    /\ UNCHANGED <<directory, stores, proc, admitted, attendance_unique>>

\* await db.attendance.insert_one(attendance.dict())
MarkInsert(j) ==
    /\ marking[j].pc = "insert"
    /\ Len(attendance) < MaxAttendance
    /\ LET doc == Attendance(Len(attendance) + 1, marking[j].user_id, marking[j].course_id,
                             marking[j].branch_id, marking[j].attendance_date, "manual",
                             marking[j].current_user.id,
                             marking[j].status \in {"present", "late"}, marking[j].status)
       IN IF DuplicateKey(doc)
          THEN /\ resp' = attendance_response("mark", marking[j].current_user, 500,
                                              "duplicate key", {})
               /\ UNCHANGED attendance
          ELSE /\ attendance' = Append(attendance, doc)
               /\ resp' = attendance_response("mark", marking[j].current_user, 0,
                                "Student attendance marked successfully", {"created"})
    /\ marking' = [marking EXCEPT ![j] = NotMarking]
    /\ UNCHANGED <<directory, stores, proc, admitted, attendance_unique>>

InitMessages ==
    /\ message_threads = <<>>
    /\ messages = <<>>
    /\ message_notifications = <<>>
    /\ proc = [i \in Procs |-> Idle]
    /\ admitted = 0
    /\ resp = NoResponse

\* db.attendance is empty, no call is in flight; unique says whether the
\* migration add_attendance_unique_index has been run on the database
InitRoll(unique) ==
    /\ attendance = <<>>
    /\ attendance_unique = unique
    /\ marking = [j \in Markers |-> NotMarking]

InitStores == InitMessages /\ InitRoll(FALSE)

\* ------------------------------------------------- the conversation scenario
\* Student s1 (enrolled in b1, record in b1) and coach c1 (b1) write to each
\* other, with up to MaxProcs requests in flight and a data store that may fail.
ConversationInputs ==
    [sessions |-> {Session("s1", STUDENT, None), Session("c1", COACH, "b1")},
     targets |-> {<<"s1", STUDENT>>, <<"c1", COACH>>},
     subjects |-> Subjects,
     refs |-> TRUE,
     both |-> FALSE,
     max_requests |-> MaxRequests,
     max_messages |-> MaxRequests]

Init ==
    /\ Directory("b1", None, "m2", TRUE)
    /\ InitStores

Next ==
    \/ \E i \in Procs : SendBegin(i, ConversationInputs)
    \/ \E i \in Procs : FindOriginal(i)
    \/ \E i \in Procs : FindThread(i)
    \/ \E i \in Procs : CreateThread(i)
    \/ \E i \in Procs : InsertMessage(i, ConversationInputs)
    \/ \E i \in Procs : UpdateThread(i)
    \/ \E i \in Procs : CreateNotification(i)
    \/ \E i \in Procs : StoreFails(i)

Spec == Init /\ [][Next]_vars

\* ------------------------------------------ the serial conversation scenario
\* The same two users on a store that does not fail, one request at a time:
\* a request is made only when no other is in flight.
SerialInputs ==
    [ConversationInputs EXCEPT !.max_requests = SerialMaxRequests,
                               !.max_messages = SerialMaxRequests]

NextSerial ==
    \/ SendBegin(1, SerialInputs)
    \/ FindOriginal(1)
    \/ FindThread(1)
    \/ CreateThread(1)
    \/ InsertMessage(1, SerialInputs)
    \/ UpdateThread(1)
    \/ CreateNotification(1)

SpecSerial == Init /\ [][NextSerial]_vars

\* ------------------------------------------------------- the access scenario
\* Every session writes to every target, one request at a time: a caller reads
\* the response before the next request is made.
AccessInputs ==
    [sessions |-> Sessions,
     targets |-> Targets,
     subjects |-> {<<Topic>>},
     refs |-> TRUE,
     both |-> FALSE,
     max_requests |-> AccessMaxRequests,
     max_messages |-> AccessMaxMessages]

InitAccess ==
    /\ \E sb \in BranchOrNone, mb \in {None, "m2"} : Directory(sb, None, mb, TRUE)
    /\ InitStores

\* the caller has no request in flight and no response to read
Ready == resp = NoResponse /\ \A i \in Procs : proc[i].pc = "idle"

NextAccess ==
    \/ Ready /\ SendBegin(1, AccessInputs)
    \/ FindOriginal(1)
    \/ FindThread(1)
    \/ CreateThread(1)
    \/ InsertMessage(1, AccessInputs)
    \/ UpdateThread(1)
    \/ CreateNotification(1)
    \/ Ready /\ GetAvailableRecipients(AccessInputs)
    \/ Ack

SpecAccess == InitAccess /\ [][NextAccess]_vars

\* ------------------------------------------------------ the mailbox scenario
\* s1 and c1 write to each other on two topics, without thread_id or
\* reply_to_message_id, and they, branch manager m1 and superadmin a1 read
\* threads, delete and restore messages and mark them unread, one request at
\* a time.
MailboxInputs ==
    [sessions |-> {Session("s1", STUDENT, None), Session("c1", COACH, "b1")},
     readers |-> {Session("s1", STUDENT, None), Session("c1", COACH, "b1"),
                  Session("m1", BRANCH_MANAGER, None), Session("a1", SUPERADMIN, None)},
     targets |-> {<<"s1", STUDENT>>, <<"c1", COACH>>},
     subjects |-> {<<Topic>>, <<OtherTopic>>},
     refs |-> FALSE,
     both |-> FALSE,
     patches |-> [{"is_deleted"} -> BOOLEAN] \cup [{"is_read"} -> {FALSE}],
     statuses |-> {None},
     max_requests |-> MailboxMaxRequests,
     max_messages |-> MailboxMaxRequests]

NextMailbox ==
    \/ Ready /\ SendBegin(1, MailboxInputs)
    \/ FindThread(1)
    \/ CreateThread(1)
    \/ InsertMessage(1, MailboxInputs)
    \/ UpdateThread(1)
    \/ CreateNotification(1)
    \/ Ready /\ ListBegin(1, MailboxInputs)
    \/ ListFind(1)
    \/ ListMark(1)
    \/ ListCount(1)
    \/ Ready /\ UpdateBegin(1, MailboxInputs)
    \/ UpdateOne(1)
    \/ Ack

SpecMailbox == Init /\ [][NextMailbox]_vars

\* -------------------------------------------------------- the flags scenario
\* One message between s1 and c1, and every patch update_message accepts,
\* from its sender, its recipient, branch manager m1 and superadmin a1.
FlagsInputs ==
    [MailboxInputs EXCEPT !.subjects = {<<Topic>>},
                          !.patches = Patches,
                          !.statuses = StatusInputs,
                          !.max_requests = FlagsMaxRequests,
                          !.max_messages = FlagsMaxRequests]

NextFlags ==
    \/ Ready /\ SendBegin(1, FlagsInputs)
    \/ FindThread(1)
    \/ CreateThread(1)
    \/ InsertMessage(1, FlagsInputs)
    \/ UpdateThread(1)
    \/ CreateNotification(1)
    \/ Ready /\ UpdateBegin(1, FlagsInputs)
    \/ UpdateOne(1)
    \/ Ack

SpecFlags == Init /\ [][NextFlags]_vars

\* ----------------------------------------------------- the prefixes scenario
\* The serial conversation with subjects of up to PrefixMaxRe leading "Re: "
\* and neither thread_id nor reply_to_message_id.
PrefixSubjects == {Prefixed(k, <<Topic>>) : k \in 0..PrefixMaxRe}

PrefixInputs ==
    [ConversationInputs EXCEPT !.subjects = PrefixSubjects,
                               !.refs = FALSE,
                               !.max_requests = PrefixMaxRequests,
                               !.max_messages = PrefixMaxRequests]

NextPrefixes ==
    \/ SendBegin(1, PrefixInputs)
    \/ FindThread(1)
    \/ CreateThread(1)
    \/ InsertMessage(1, PrefixInputs)
    \/ UpdateThread(1)
    \/ CreateNotification(1)

SpecPrefixes == Init /\ [][NextPrefixes]_vars

\* ---------------------------------------------------- the resolution scenario
\* The serial conversation with callers that may supply thread_id and
\* reply_to_message_id together.
ResolveInputs ==
    [ConversationInputs EXCEPT !.both = TRUE,
                               !.max_requests = ResolveMaxRequests,
                               !.max_messages = ResolveMaxRequests]

NextResolve ==
    \/ SendBegin(1, ResolveInputs)
    \/ FindOriginal(1)
    \/ FindThread(1)
    \/ CreateThread(1)
    \/ InsertMessage(1, ResolveInputs)
    \/ UpdateThread(1)
    \/ CreateNotification(1)

SpecResolve == Init /\ [][NextResolve]_vars

\* ------------------------------------------------- the notifications scenario
\* The mailbox scenario under one subject, with callers that also mark
\* notifications as read.
NotifyInputs ==
    [MailboxInputs EXCEPT !.subjects = {<<Topic>>},
                          !.patches = [{"is_read"} -> {TRUE}],
                          !.max_requests = NotifyMaxRequests,
                          !.max_messages = NotifyMaxRequests]

NextNotify ==
    \/ Ready /\ SendBegin(1, NotifyInputs)
    \/ FindThread(1)
    \/ CreateThread(1)
    \/ InsertMessage(1, NotifyInputs)
    \/ UpdateThread(1)
    \/ CreateNotification(1)
    \/ Ready /\ ListBegin(1, NotifyInputs)
    \/ ListFind(1)
    \/ ListMark(1)
    \/ ListCount(1)
    \/ Ready /\ UpdateBegin(1, NotifyInputs)
    \/ UpdateOne(1)
    \/ Ready /\ MarkNotificationRead(NotifyInputs)
    \/ Ack

SpecNotify == Init /\ [][NextNotify]_vars

\* ------------------------------------------------- the third-party scenario
\* s1 and c1 write to each other and branch manager m1 writes to both, with
\* thread_id or reply_to_message_id of any stored document, and the three of
\* them read threads, one request at a time.
InjectInputs ==
    [sessions |-> {Session("s1", STUDENT, None), Session("c1", COACH, "b1"),
                   Session("m1", BRANCH_MANAGER, None)},
     readers |-> {Session("s1", STUDENT, None), Session("c1", COACH, "b1"),
                  Session("m1", BRANCH_MANAGER, None)},
     targets |-> {<<"s1", STUDENT>>, <<"c1", COACH>>},
     subjects |-> {<<Topic>>},
     refs |-> TRUE,
     both |-> FALSE,
     max_requests |-> InjectMaxRequests,
     max_messages |-> InjectMaxRequests]

NextInject ==
    \/ Ready /\ SendBegin(1, InjectInputs)
    \/ FindOriginal(1)
    \/ FindThread(1)
    \/ CreateThread(1)
    \/ InsertMessage(1, InjectInputs)
    \/ UpdateThread(1)
    \/ CreateNotification(1)
    \/ Ready /\ ListBegin(1, InjectInputs)
    \/ ListFind(1)
    \/ ListMark(1)
    \/ ListCount(1)
    \/ Ack

SpecInject == Init /\ [][NextInject]_vars

\* --------------------------------------------- the concurrent sends scenario
\* The conversation scenario on a store that does not fail: up to MaxProcs
\* requests of s1 and c1 in flight at once.
NextRace ==
    \/ \E i \in Procs : SendBegin(i, ConversationInputs)
    \/ \E i \in Procs : FindOriginal(i)
    \/ \E i \in Procs : FindThread(i)
    \/ \E i \in Procs : CreateThread(i)
    \/ \E i \in Procs : InsertMessage(i, ConversationInputs)
    \/ \E i \in Procs : UpdateThread(i)
    \/ \E i \in Procs : CreateNotification(i)

SpecRace == Init /\ [][NextRace]_vars

\* ---------------------------------------------------- the attendance scenario
\* Coach c1 and the biometric device mark student s1 in course k1 of branch
\* b1, on a database with or without the unique index, with up to MaxMarkers
\* mark_comprehensive_attendance calls in flight.
AttendanceInputs ==
    [markers |-> {Session("c1", COACH, "b1")},
     others |-> {Session("c2", "coach_admin", None)},
     students |-> {"s1"},
     courses |-> {"k1"},
     branches |-> {"b1"},
     biometric_ids |-> {"s1", UnknownBiometricId},
     statuses |-> {"present", "absent"}]

InitAttendance ==
    /\ Directory("b1", None, "m2", TRUE)
    /\ InitMessages
    /\ \E unique \in BOOLEAN : InitRoll(unique)

NextAttendance ==
    \/ MarkManual(AttendanceInputs)
    \/ BiometricAttendance(AttendanceInputs)
    \/ \E j \in Markers : MarkBegin(j, AttendanceInputs)
    \/ \E j \in Markers : MarkUpdate(j)
    \/ \E j \in Markers : MarkInsert(j)

SpecAttendance == InitAttendance /\ [][NextAttendance]_vars

\* ------------------------------------------------------------------- claims
\* a send_message call that has passed validation and has not returned
InFlight(i) == proc[i].pc # "idle"

\* C1: every contact the recipient resolver lists for a caller is one the
\* access validator accepts as the target of a new message from that caller;
\* so a new message that the validator rejects is never addressed to a
\* contact the resolver lists for its sender.
C1_ListedRecipientsPassValidation ==
    (resp.op = "send" /\ resp.raised \in {403, 404} /\ ~resp.request.is_reply)
        => Entry(resp.request.recipient_id, resp.request.recipient_type)
              \notin get_available_recipients(resp.request.current_user)

\* C2: sequential send_message calls between the same two users, in either
\* direction, that supply neither thread_id nor reply_to_message_id and have
\* the same base subject all resolve to the same thread: when every thread of
\* the pair was created for that base subject, there is at most one, and every
\* such message is stored in it.
C2_SameBaseSameThread ==
    \A a, b \in {m.sender_id : m \in Range(messages)}, base \in Subjects :
        LET threads == {t \in Range(message_threads) : a # b /\ HasBoth(t, a, b)}
            found == {m \in Range(messages) :
                        /\ m.thread_id_in = NoId /\ m.reply_to_message_id = NoId
                        /\ a # b /\ {m.sender_id, m.recipient_id} = {a, b}}
        IN (/\ \A t \in threads : StripRe(t.for_subject) = base
            /\ \A m \in found : StripRe(m.subject) = base)
              => /\ Cardinality(threads) <= 1
                 /\ \A m \in found : \E t \in threads : m.thread_id = t.id

\* three such messages, sent in both directions and under different
\* subjects of one base, share the only thread
C2_Witness ==
    /\ Len(message_threads) = 1
    /\ Len(messages) = 3
    /\ \A m \in Range(messages) :
          /\ m.thread_id_in = NoId /\ m.reply_to_message_id = NoId
          /\ m.sent /\ m.thread_id = message_threads[1].id
    /\ \E m, n \in Range(messages) : m.sender_id # n.sender_id
    /\ \E m, n \in Range(messages) : m.subject # n.subject

\* C3: once no send_message call is in flight, the message_count of every
\* thread is the number of successful send_message calls that targeted it,
\* however the calls interleaved: no increment is lost or counted twice.
C3_CountIsNumberOfSends ==
    (\A i \in Procs : ~InFlight(i)) =>
        \A t \in Range(message_threads) :
            t.message_count =
                Cardinality({m \in Range(messages) : m.thread_id = t.id /\ m.sent})

\* two calls on one thread whose updates ran in the opposite order of their
\* inserts have both been counted
C3_Witness ==
    /\ \A i \in Procs : ~InFlight(i)
    /\ \E t \in Range(message_threads) :
          /\ t.message_count = 2
          /\ t.last_message_id = 1
          /\ \A m \in Range(messages) : m.thread_id = t.id /\ m.sent

\* C4: send_message is all-or-nothing: a success response means the thread
\* exists, the message is stored and the thread's message_count was
\* incremented; a failure response means the call persisted nothing.
C4_AllOrNothing ==
    resp.op = "send" =>
        IF resp.status = 200
        THEN /\ {"message", "count"} \subseteq resp.wrote
             /\ \E t \in Range(message_threads) : t.id = resp.thread_id
        ELSE resp.wrote = {}

\* C5: a send_message call rejected by the access validator is answered with
\* the status of the rejection: 403 for a denial, 404 for a recipient that is
\* not found, never a generic failure.
C5_RejectionKeepsItsStatus ==
    (resp.op = "send" /\ resp.raised \in {403, 404}) => resp.status = resp.raised

\* a coach and an active student whose branch ids are both set and differ
C6_Mismatch(current_user, student_id) ==
    LET coach_branch == IF current_user.branch_id # None
                        THEN current_user.branch_id
                        ELSE coach_record_branch(current_user.id)
    IN /\ current_user.role = COACH
       /\ coach_branch # None
       /\ \E r \in find_recipient(student_id, STUDENT) :
              r.branch_id # None /\ r.branch_id # coach_branch

\* C6: between a coach and an active student whose branch ids are both set
\* and differ, a reply passes validation iff a thread with both of them as
\* participants exists, and a new message never does.
C6_MismatchedReplyNeedsThread ==
    /\ \A i \in Procs :
          (/\ InFlight(i)
           /\ proc[i].recipient_type = STUDENT
           /\ C6_Mismatch(proc[i].current_user, proc[i].recipient_id))
            => /\ is_reply(proc[i].reply_to_message_id, proc[i].thread_id_in)
               /\ \E t \in Range(message_threads) :
                      HasBoth(t, proc[i].current_user.id, proc[i].recipient_id)
    /\ (/\ resp.op = "send"
        /\ resp.request.recipient_type = STUDENT
        /\ C6_Mismatch(resp.request.current_user, resp.request.recipient_id))
          => (resp.raised = 403 <=>
                ~(/\ resp.request.is_reply
                  /\ \E t \in Range(message_threads) :
                         HasBoth(t, resp.request.current_user.id,
                                 resp.request.recipient_id)))

\* a reply of a coach to a student of another branch is past validation
C6_Witness ==
    \E i \in Procs :
        /\ InFlight(i)
        /\ proc[i].recipient_type = STUDENT
        /\ C6_Mismatch(proc[i].current_user, proc[i].recipient_id)

\* C7: a new message of a coach to a student passes validation only if the
\* student's branch id is the coach's effective branch (the session's branch,
\* else the coach record's), a coach with no branch being given no leniency.
C7_NewMessageNeedsSameBranch ==
    \A i \in Procs :
        (/\ InFlight(i)
         /\ proc[i].current_user.role = COACH
         /\ proc[i].recipient_type = STUDENT
         /\ ~is_reply(proc[i].reply_to_message_id, proc[i].thread_id_in))
          => LET effective_branch ==
                     IF proc[i].current_user.branch_id # None
                     THEN proc[i].current_user.branch_id
                     ELSE coach_record_branch(proc[i].current_user.id)
             IN /\ effective_branch # None
                /\ \E r \in find_recipient(proc[i].recipient_id, STUDENT) :
                       r.branch_id = effective_branch

\* sender and recipient have the same one of the three restricted roles
C8_SameRole(sender_type, recipient_type) ==
    sender_type \in {STUDENT, COACH, BRANCH_MANAGER} /\ sender_type = recipient_type

\* C8: a student writing to a student, a coach to a coach and a branch
\* manager to a branch manager is always denied, reply or not: no such
\* request passes validation, its response is a failure that persisted
\* nothing, and no stored thread, message or notification is of that kind.
C8_SameRoleDenied ==
    /\ \A i \in Procs :
          InFlight(i) => ~C8_SameRole(role_mapping(proc[i].current_user.role),
                                      proc[i].recipient_type)
    /\ (/\ resp.op = "send"
        /\ C8_SameRole(role_mapping(resp.request.current_user.role),
                       resp.request.recipient_type))
          => resp.status # 200 /\ resp.wrote = {}
    /\ \A m \in Range(messages) : ~C8_SameRole(m.sender_type, m.recipient_type)
    /\ \A t \in Range(message_threads) :
          ~C8_SameRole(t.participants[1].user_type, t.participants[2].user_type)
    /\ \A n \in Range(message_notifications) :
          ~C8_SameRole(messages[n.message_id].sender_type, n.recipient_type)

\* a reply of a branch manager to an existing branch manager, made while a
\* thread is stored, has been denied
C8_Witness ==
    /\ resp.op = "send"
    /\ resp.request.current_user.role = BRANCH_MANAGER
    /\ resp.request.recipient_type = BRANCH_MANAGER
    /\ find_recipient(resp.request.recipient_id, BRANCH_MANAGER) # {}
    /\ resp.request.is_reply
    /\ resp.raised = 403
    /\ Len(message_threads) > 0

\* the user is the manager_id of a branch in the student's resolved branch set
C9_ManagesBranchOf(current_user, manager_id) ==
    \E b \in student_branch_ids(current_user) :
        \E x \in branches : x.id = b /\ x.manager_id = manager_id

C10_NoBranch(current_user) ==
    /\ current_user.role = STUDENT
    /\ current_user.branch_id = None
    /\ ~\E e \in enrollments : e.student_id = current_user.id /\ e.is_active

\* the ids of the active branch managers, of either collection
C10_ActiveManagers ==
    {m.id : m \in {x \in branch_managers : x.is_active}}
        \cup {u.id : u \in {x \in users : x.role = BRANCH_MANAGER /\ x.is_active}}

\* C10: the recipients listed for a student with no branch id and no active
\* enrollment include every active branch manager.
C10_FallbackListsAllManagers ==
    /\ \A current_user \in Sessions :
          C10_NoBranch(current_user)
            => \A id \in C10_ActiveManagers :
                  Entry(id, BRANCH_MANAGER) \in get_available_recipients(current_user)
    /\ (resp.op = "recipients" /\ C10_NoBranch(resp.request.current_user))
          => \A id \in C10_ActiveManagers : Entry(id, BRANCH_MANAGER) \in resp.recipients

\* such a student has been given a list, and there are branch managers in
\* both collections
C10_Witness ==
    /\ resp.op = "recipients"
    /\ C10_NoBranch(resp.request.current_user)
    /\ \E m \in branch_managers : m.is_active
    /\ \E u \in users : u.role = BRANCH_MANAGER /\ u.is_active

\* C11: a get_thread_messages call that succeeds leaves every message of the
\* thread that is addressed to the caller read, whatever skip and limit it
\* was given and whether or not the thread holds deleted messages.
C11_ListMarksEveryUnread ==
    (resp.op = "list" /\ resp.status = 200) =>
        \A m \in Range(messages) :
            (m.thread_id = resp.thread_id /\ m.recipient_id = resp.request.current_user.id)
              => m.is_read

\* the caller of a get_thread_messages call is no participant of the stored
\* thread it names and no superadmin
C12_Outsider(current_user, thread_id) ==
    /\ ~is_superadmin(current_user)
    /\ \E t \in Range(message_threads) :
          /\ t.id = thread_id
          /\ \A k \in 1..Len(t.participants) : t.participants[k].user_id # current_user.id

\* C12: get_thread_messages by a caller who is neither a participant of the
\* thread nor a superadmin is answered 403 with no messages, and never gets
\* as far as reading or marking messages; by a superadmin who is no
\* participant it succeeds.
C12_OnlyParticipantsAndSuperadminsList ==
    /\ \A i \in Procs :
          proc[i].pc \in {"list_find", "list_mark", "list_count"}
            => ~C12_Outsider(proc[i].current_user, proc[i].thread_id)
    /\ (resp.op = "list" /\ C12_Outsider(resp.request.current_user, resp.thread_id))
          => /\ resp.status = 403
             /\ resp.messages = <<>>
             /\ resp.wrote = {}
    /\ (/\ resp.op = "list"
        /\ is_superadmin(resp.request.current_user)
        /\ \E t \in Range(message_threads) : t.id = resp.thread_id)
          => resp.status = 200

\* a branch manager has been denied a thread that holds an unread message
C12_Witness ==
    /\ resp.op = "list"
    /\ resp.request.current_user.role = BRANCH_MANAGER
    /\ C12_Outsider(resp.request.current_user, resp.thread_id)
    /\ resp.status = 403
    /\ \E m \in Range(messages) : m.thread_id = resp.thread_id /\ ~m.is_read

\* C13: a message whose is_deleted is true is in no list get_thread_messages
\* returns, while its row stays in db.messages and still counts in its
\* thread's message_count.
C13_DeletedIsHiddenButCounted ==
    /\ (resp.op = "list" /\ resp.status = 200)
          => \A k \in 1..Len(resp.messages) : ~messages[resp.messages[k]].is_deleted
    /\ (\A i \in Procs : ~InFlight(i))
          => \A t \in Range(message_threads) :
                t.message_count =
                    Cardinality({m \in Range(messages) : m.thread_id = t.id})

\* a thread of two messages, one of them deleted, has been listed with room
\* for both, and the list holds only the other one
C13_Witness ==
    /\ resp.op = "list"
    /\ resp.status = 200
    /\ Len(resp.messages) = 1
    /\ \E t \in Range(message_threads) : t.id = resp.thread_id /\ t.message_count = 2
    /\ \E m \in Range(messages) :
          /\ m.thread_id = resp.thread_id
          /\ m.is_deleted
          /\ m.status = "deleted"
    /\ \E m \in Range(messages) :
          m.thread_id = resp.thread_id /\ ~m.is_deleted /\ m.id = resp.messages[1]

\* C14: update_message by a caller who is neither the recipient of the message
\* nor a superadmin, its sender included, is answered 403 and changes no
\* message; on an id that names no message it is answered 404 and changes no
\* message; no such call gets as far as the update.
C14_OnlyRecipientAndSuperadminsUpdate ==
    [][/\ \A i \in Procs :
            proc'[i].pc = "update_one"
              => \E m \in Range(messages) :
                    /\ m.id = proc'[i].message_id
                    /\ (m.recipient_id = proc'[i].current_user.id
                           \/ is_superadmin(proc'[i].current_user))
       /\ (resp'.op = "update" /\ resp' # resp)
            => LET found == {m \in Range(messages) : m.id = resp'.message_id}
               IN IF found = {}
                  THEN resp'.status = 404 /\ messages' = messages
                  ELSE IF \E m \in found :
                             /\ m.recipient_id # resp'.request.current_user.id
                             /\ ~is_superadmin(resp'.request.current_user)
                  THEN resp'.status = 403 /\ messages' = messages
                  ELSE resp'.status = 200]_vars

\* the sender of a message has been denied its update
C14_Witness ==
    /\ resp.op = "update"
    /\ resp.status = 403
    /\ \E m \in Range(messages) :
          m.id = resp.message_id /\ m.sender_id = resp.request.current_user.id

\* C15: the update of an accepted update_message call sets each flag its
\* patch names to the value given, leaves each flag it does not name as it
\* was, and touches no other message.
C15_FlagsAreIndependent ==
    [][\A i \in Procs :
          (proc[i].pc = "update_one" /\ proc'[i].pc = "idle")
            => \A k \in 1..Len(messages) :
                  IF messages[k].id = proc[i].message_id
                  THEN \A f \in Flags :
                          messages'[k][f] = IF f \in DOMAIN proc[i].patch
                                            THEN proc[i].patch[f]
                                            ELSE messages[k][f]
                  ELSE messages'[k] = messages[k]]_vars

\* a message is read and archived at once, and not deleted
C15_Witness ==
    \E m \in Range(messages) : m.is_read /\ m.is_archived /\ ~m.is_deleted

\* C16: when the creation of the notification fails, send_message still
\* returns success with the message_id and the thread_id of the message it
\* stored, and the failure undoes nothing: the threads are as they were and
\* so is every message row (the stored message among them).
C16_NotificationFailureIsSwallowed ==
    [][\A i \in Procs :
          (/\ proc[i].pc = "notify"
           /\ proc'[i].pc = "idle"
           /\ message_notifications' = message_notifications)
            => /\ resp'.op = "send"
               /\ resp'.status = 200
               /\ resp'.message_id = proc[i].message_id
               /\ resp'.thread_id = proc[i].thread_id
               /\ message_threads' = message_threads
               /\ Len(messages') = Len(messages)
               /\ \A k \in 1..Len(messages) :
                     [messages'[k] EXCEPT !.sent = FALSE] = [messages[k] EXCEPT !.sent = FALSE]
               /\ \E m \in Range(messages') :
                     m.id = proc[i].message_id /\ m.thread_id = proc[i].thread_id]_vars

\* a send has returned success without a notification for its message, the
\* message is stored and its thread counts it and names it as its last
C16_Witness ==
    /\ resp.op = "send"
    /\ resp.status = 200
    /\ "notification" \notin resp.wrote
    /\ \A n \in Range(message_notifications) : n.message_id # resp.message_id
    /\ \E m \in Range(messages) : m.id = resp.message_id /\ m.thread_id = resp.thread_id
    /\ \E t \in Range(message_threads) :
          /\ t.id = resp.thread_id
          /\ t.last_message_id = resp.message_id
          /\ t.message_count >= 1

\* the two messages are between the same two users
C17_SamePair(m, n) ==
    /\ m.sender_id # m.recipient_id
    /\ {m.sender_id, m.recipient_id} = {n.sender_id, n.recipient_id}

\* C17: when "Re: Re: Hello" and then "Hello" have been sent between the same
\* two users, one call after the other and with neither thread_id nor
\* reply_to_message_id, there is one thread, both messages are in it and its
\* message_count is 2.
C17_ReReThenPlainShareThread ==
    (/\ \A i \in Procs : ~InFlight(i)
     /\ Len(messages) = 2
     /\ messages[1].subject = Prefixed(2, <<Topic>>)
     /\ messages[2].subject = <<Topic>>
     /\ C17_SamePair(messages[1], messages[2]))
      => /\ Len(message_threads) = 1
         /\ messages[1].thread_id = message_threads[1].id
         /\ messages[2].thread_id = message_threads[1].id
         /\ message_threads[1].message_count = 2

\* "Re: Re: Hello" from s1 to c1, then "Hello" from c1 to s1, both returned
C17_Witness ==
    /\ \A i \in Procs : ~InFlight(i)
    /\ Len(messages) = 2
    /\ messages[1].subject = <<RE, RE, Topic>>
    /\ messages[2].subject = <<Topic>>
    /\ messages[1].sender_id = "s1" /\ messages[1].recipient_id = "c1"
    /\ messages[2].sender_id = "c1" /\ messages[2].recipient_id = "s1"
    /\ messages[1].sent /\ messages[2].sent
    /\ message_threads[1].subject = <<RE, Topic>>

\* C18: messages sent between the same two users under one topic, with any
\* numbers of leading "Re: " and in either order, one call after the other and
\* with neither thread_id nor reply_to_message_id, are all in the same thread.
C18_AnyPrefixesShareThread ==
    (\A i \in Procs : ~InFlight(i))
      => \A m, n \in Range(messages) : C17_SamePair(m, n) => m.thread_id = n.thread_id

\* the fields of a message document (the history fields set aside)
C19_Stored(m) == [m EXCEPT !.sent = FALSE, !.thread_id_in = NoId]

\* C19: a stored message changes only in the update of an update_message call
\* made for that message by its recipient or by a superadmin: no step of any
\* other operation, and no other caller, changes a field of an existing
\* message.
C19_OnlyUpdateMessageChangesMessages ==
    [][\A k \in 1..Len(messages) :
          C19_Stored(messages'[k]) # C19_Stored(messages[k])
            => \E i \in Procs :
                  /\ proc[i].pc = "update_one"
                  /\ proc'[i].pc = "idle"
                  /\ proc[i].message_id = messages[k].id
                  /\ (messages[k].recipient_id = proc[i].current_user.id
                         \/ is_superadmin(proc[i].current_user))]_vars

\* the calendar day of an attendance record
C20_Day(r) == r.attendance_date.day

\* C20: db.attendance never holds two records of one student, course, branch
\* and calendar day, whatever attendance-marking calls were made and however
\* they interleaved.
C20_OneRecordPerStudentCourseBranchDay ==
    \A a, b \in 1..Len(attendance) :
        (/\ attendance[a].student_id = attendance[b].student_id
         /\ attendance[a].course_id = attendance[b].course_id
         /\ attendance[a].branch_id = attendance[b].branch_id
         /\ C20_Day(attendance[a]) = C20_Day(attendance[b]))
          => a = b

\* C21: thread resolution takes the first of: the thread_id supplied (the
\* message is stored under exactly that id, and nothing is searched for or
\* created, whatever reply_to_message_id and subject are); the thread of the
\* message reply_to_message_id names, when there is one; a thread the subject
\* search finds; a new thread, created only when the search found none.
C21_ResolutionOrder ==
    /\ \A i \in Procs :
          /\ proc[i].pc \in {"find_original", "find_thread", "create"}
                => proc[i].thread_id_in = NoId
          /\ proc[i].pc \in {"find_thread", "create"}
                => \A o \in Range(messages) : o.id # proc[i].reply_to_message_id
          /\ "thread" \in proc[i].wrote
                => /\ proc[i].thread_id_in = NoId
                   /\ \A o \in Range(messages) :
                         o.id = proc[i].reply_to_message_id => o.id = proc[i].message_id
    /\ \A m \in Range(messages) :
          IF m.thread_id_in # NoId
          THEN m.thread_id = m.thread_id_in
          ELSE IF \E o \in Range(messages) : o.id = m.reply_to_message_id /\ o.id < m.id
          THEN \E o \in Range(messages) :
                  o.id = m.reply_to_message_id /\ m.thread_id = o.thread_id
          ELSE \E t \in Range(message_threads) :
                  /\ t.id = m.thread_id
                  /\ ThreadMatches(t, m.sender_id, m.recipient_id, StripRe(m.subject))
    /\ \A t, u \in Range(message_threads) :
          u.id < t.id
            => ~ThreadMatches(u, t.participants[1].user_id, t.participants[2].user_id,
                              StripRe(t.for_subject))

\* a message was sent with a thread_id and with the reply_to_message_id of a
\* message of another thread, and is stored under the thread_id
C21_Witness ==
    \E m, o \in Range(messages) :
        /\ m.sent
        /\ m.thread_id_in # NoId
        /\ o.id = m.reply_to_message_id
        /\ o.thread_id # m.thread_id_in
        /\ m.thread_id = m.thread_id_in
        /\ \E t \in Range(message_threads) : t.id = m.thread_id_in

\* the two threads are between the same two users and under the same subject
C22_SameConversation(t, u) ==
    /\ {t.participants[k].user_id : k \in 1..Len(t.participants)}
          = {u.participants[k].user_id : k \in 1..Len(u.participants)}
    /\ t.subject = u.subject

\* C22: the thread find-or-create is a read-then-write race and nothing more:
\* when a send_message call inserts a thread while a thread of the same pair
\* and subject is stored, that thread was inserted after the call's own
\* lookup; a call whose lookup comes after the other call's insert (calls
\* running one after the other) creates no second thread.
C22_SecondThreadOnlyByRace ==
    [][\A i \in Procs :
          (proc[i].pc = "create" /\ proc'[i].pc = "insert")
            => \A t \in Range(message_threads) :
                  C22_SameConversation(t, message_threads'[Len(message_threads')])
                    => t.id > proc[i].seen]_vars

\* two threads, neither archived, of the same pair and subject
C22_Witness ==
    \E t, u \in Range(message_threads) :
        /\ t.id # u.id
        /\ C22_SameConversation(t, u)
        /\ ~t.is_archived /\ ~u.is_archived
        /\ t.for_subject = u.for_subject
        /\ t.participants = u.participants

\* C23: every stored thread has exactly two participants, and they are two
\* different users, whichever request the access rules let through created it.
C23_TwoDistinctParticipants ==
    \A t \in Range(message_threads) :
        /\ Len(t.participants) = 2
        /\ t.participants[1].user_id # t.participants[2].user_id

\* C24: for every stored message, read_at is set exactly when is_read is
\* true, after send_message, get_thread_messages and every accepted
\* update_message patch.
C24_ReadAtIffIsRead ==
    \A m \in Range(messages) : (m.read_at # 0) <=> m.is_read

\* C25: the update of an accepted update_message call leaves the message
\* with read_at stamped and status READ when its patch has is_read true, with
\* status ARCHIVED when it has is_archived true, and with status DELETED when
\* it has is_deleted true, whatever else the patch carries.
C25_FlagForcesStatus ==
    [][\A i \in Procs :
          (proc[i].pc = "update_one" /\ proc'[i].pc = "idle")
            => \A k \in 1..Len(messages) :
                  messages[k].id = proc[i].message_id
                    => LET Given(f) == f \in DOMAIN proc[i].patch /\ proc[i].patch[f]
                       IN /\ Given("is_read")
                               => messages'[k].read_at # 0 /\ messages'[k].status = "read"
                          /\ Given("is_archived") => messages'[k].status = "archived"
                          /\ Given("is_deleted") => messages'[k].status = "deleted"]_vars

\* C25 as it holds: the update of an accepted update_message call stamps
\* read_at when its patch has is_read true, and leaves the message with the
\* status of the last of these that the patch carries: is_read true (READ),
\* is_archived true (ARCHIVED), is_deleted true (DELETED), an explicit status
\* (that status); with none of them the status stays as it was.
C25_LastRuleSetsStatus ==
    [][\A i \in Procs :
          (proc[i].pc = "update_one" /\ proc'[i].pc = "idle")
            => \A k \in 1..Len(messages) :
                  messages[k].id = proc[i].message_id
                    => LET Given(f) == f \in DOMAIN proc[i].patch /\ proc[i].patch[f]
                       IN /\ Given("is_read") => messages'[k].read_at # 0
                          /\ messages'[k].status =
                                IF proc[i].patch_status # None THEN proc[i].patch_status
                                ELSE IF Given("is_deleted") THEN "deleted"
                                ELSE IF Given("is_archived") THEN "archived"
                                ELSE IF Given("is_read") THEN "read"
                                ELSE messages[k].status]_vars

\* an accepted patch has made a message that was never read before read and
\* archived at once: its read_at is stamped and its status is ARCHIVED
C25_Witness ==
    /\ resp.op = "update"
    /\ resp.status = 200
    /\ \E m \in Range(messages) :
          /\ m.id = resp.message_id
          /\ m.is_read /\ m.is_archived /\ ~m.is_deleted
          /\ m.read_at # 0
          /\ m.status = "archived"

\* the notifications stored for a message
C26_Of(notifications, message_id) ==
    {k \in 1..Len(notifications) : notifications[k].message_id = message_id}

\* C26: every notification belongs to a message whose send_message call
\* returned success, is addressed to that message's recipient, carries its id
\* and thread id, and has type "message_reply" exactly when the message has a
\* reply_to_message_id ("new_message" otherwise, also with a thread_id); no
\* message has two; a call whose notification step does not fail leaves
\* exactly one for its message, and a call that fails leaves the
\* notifications as they were.
C26_OneNotificationPerSend ==
    [][/\ \A n \in Range(message_notifications') :
            /\ Cardinality(C26_Of(message_notifications', n.message_id)) = 1
            /\ \E m \in Range(messages') :
                  /\ m.id = n.message_id
                  /\ m.sent
                  /\ n.recipient_id = m.recipient_id
                  /\ n.thread_id = m.thread_id
                  /\ n.sender_id = m.sender_id
                  /\ n.notification_type = "message_reply" <=> m.reply_to_message_id # NoId
                  /\ n.notification_type = "new_message" <=> m.reply_to_message_id = NoId
       /\ (resp' # resp /\ resp'.op = "send" /\ resp'.status = 200
              /\ "notification" \in resp'.wrote)
            => /\ Cardinality(C26_Of(message_notifications', resp'.message_id)) = 1
               /\ Len(message_notifications') = Len(message_notifications) + 1
       /\ (resp' # resp /\ resp'.op = "send" /\ resp'.status # 200)
            => message_notifications' = message_notifications]_vars

\* a send that carried a thread_id and no reply_to_message_id has returned,
\* and its notification is a "new_message"
C26_Witness ==
    /\ resp.op = "send"
    /\ resp.status = 200
    /\ "notification" \in resp.wrote
    /\ \E m \in Range(messages), n \in Range(message_notifications) :
          /\ m.id = resp.message_id
          /\ m.thread_id_in # NoId
          /\ m.reply_to_message_id = NoId
          /\ n.message_id = m.id
          /\ n.notification_type = "new_message"
          /\ n.recipient_id = m.recipient_id

C28_MessagesBelongToTheirThread ==
    (\A i \in Procs : ~InFlight(i))
        => \A m \in Range(messages) :
              \E t \in Range(message_threads) :
                  /\ t.id = m.thread_id
                  /\ Len(t.participants) = 2
                  /\ {t.participants[1].user_id, t.participants[2].user_id}
                        = {m.sender_id, m.recipient_id}

\* C29: every message get_thread_messages returns to a caller who is not a
\* superadmin has that caller as its sender or its recipient, whatever
\* thread_id and reply_to_message_id values the send_message calls of other
\* users carried.
C29_ListedMessagesAreTheCallersOwn ==
    (resp.op = "list" /\ resp.status = 200 /\ ~is_superadmin(resp.request.current_user))
        => \A k \in 1..Len(resp.messages) :
              \/ messages[resp.messages[k]].sender_id = resp.request.current_user.id
              \/ messages[resp.messages[k]].recipient_id = resp.request.current_user.id

\* C30: whenever no send_message call is in flight, each thread that has at
\* least one message has last_message_id equal to the id of its most recently
\* created message, last_message_at equal to that message's created_at and
\* last_sender_id equal to its sender, after sequential sends and after every
\* interleaving of concurrent sends to the thread.
C30_LastMessageIsTheMostRecent ==
    (\A i \in Procs : ~InFlight(i))
        => \A t \in Range(message_threads) :
              \A m \in Range(messages) :
                  (/\ m.thread_id = t.id
                   /\ \A n \in Range(messages) :
                         n.thread_id = t.id => n.created_at <= m.created_at)
                      => /\ t.last_message_id = m.id
                         /\ t.last_message_at = m.created_at
                         /\ t.last_sender_id = m.sender_id

====
